---- MODULE Spec2Model ----
(***************************************************************************)
(* A model of streamlit_app.py, the WhatsApp chat dashboard: the line      *)
(* grammar (parse_line), the ingestion loop (parse_chat), the DateTime     *)
(* normalisation, the sidebar filters, the chat duration summary and the   *)
(* hour and minute aggregations.                                           *)
(*                                                                         *)
(* Text is modelled as a sequence of one-character strings, so that the    *)
(* regular expression, str.strip, str.split and str.contains are computed  *)
(* character by character.  A timestamp is the number of seconds since     *)
(* 1/1/2024 00:00; NaT is the value pandas gives a date/time text that is  *)
(* no calendar moment.                                                     *)
(***************************************************************************)
EXTENDS Integers, Sequences, FiniteSets, TLC

VARIABLES
    pc,                   \* position in the script
    line,                 \* parse_line: its argument
    parsed,               \* parse_line: its result, <<>> for None
    file,                 \* parse_chat: the uploaded file, a sequence of raw lines
    idx,                  \* parse_chat: the line the for loop is at
    data,                 \* parse_chat: the rows collected so far
    df,                   \* the DataFrame
    session,              \* the widget values the user has set
    selected_participant, \* st.sidebar.multiselect
    selected_date,        \* st.sidebar.date_input, <<>> for None
    keyword,              \* st.sidebar.text_input
    filtered_df,          \* the filtered DataFrame
    duration_summary,     \* the rows of the chat duration summary
    hourly_counts,        \* rows (HourRound, Name, MessageCount)
    minute_counts         \* rows (MinuteRound, Name, MessageCount, Messages)

vars == <<pc, line, parsed, file, idx, data, df, session, selected_participant,
          selected_date, keyword, filtered_df, duration_summary,
          hourly_counts, minute_counts>>

-----------------------------------------------------------------------------
(* Bounds of the model *)

\* the longest "name: message" tail of a line given to parse_line
MaxBody == 4

\* the most lines of an uploaded file
MaxLines == 3

-----------------------------------------------------------------------------
(* Text helpers *)

Digits == {"0", "1", "2", "3", "4", "5", "6", "7", "8", "9"}

\* what str.strip() removes
Whitespace == {" ", "\n", "\t", "\r"}

\* all sequences over S of length at most n
SeqsUpTo(S, n) == UNION {[1..k -> S] : k \in 0..n}

\* s[a..b], empty when b < a
Slice(s, a, b) == IF b < a THEN <<>> ELSE SubSeq(s, a, b)

\* t occurs in s at position p
LitAt(s, p, t) ==
    /\ p >= 1
    /\ p + Len(t) - 1 <= Len(s)
    /\ \A i \in 1..Len(t) : s[p + i - 1] = t[i]

\* n digits occur in s at position p
DigitsAt(s, p, n) ==
    /\ p >= 1
    /\ p + n - 1 <= Len(s)
    /\ \A i \in p..(p + n - 1) : s[i] \in Digits

\* the least element of a non-empty set of integers
Least(S) == CHOOSE x \in S : \A y \in S : x <= y

\* the greatest element of a non-empty set of integers
Greatest(S) == CHOOSE x \in S : \A y \in S : x >= y

\* a strip that removes the trailing whitespace only (str.rstrip)
StripTrailingOnly(s) ==
    LET keep == {i \in 1..Len(s) : s[i] \notin Whitespace}
    IN  IF keep = {} THEN <<>> ELSE SubSeq(s, 1, Greatest(keep))

\* str.strip(): leading and trailing whitespace removed
Strip(s) ==
    LET keep == {i \in 1..Len(s) : s[i] \notin Whitespace}
    IN  IF keep = {} THEN <<>> ELSE SubSeq(s, Least(keep), Greatest(keep))

\* str.split(c)[0]: the text before the first c, all of it when there is none
BeforeFirst(s, c) ==
    LET at == {i \in 1..Len(s) : s[i] = c}
    IN  IF at = {} THEN s ELSE Slice(s, 1, Least(at) - 1)

-----------------------------------------------------------------------------
\* parse_line: the line grammar line_pattern,
\*   D{1,2}/D{1,2}/D{4}, DD:DD - name: message
\* with a lazy name of at least one character and a greedy message, matched
\* with re.match, that is anchored at the first character of the line.

\* the pairs (digits of the day, digits of the month) with which the text
\* up to and including " - " matches at position 1; at most one pair does
HeadMatches(s) ==
    {ab \in {1, 2} \X {1, 2} :
        LET a == ab[1]
            b == ab[2]
        IN  /\ DigitsAt(s, 1, a)
            /\ LitAt(s, a + 1, <<"/">>)
            /\ DigitsAt(s, a + 2, b)
            /\ LitAt(s, a + b + 2, <<"/">>)
            /\ DigitsAt(s, a + b + 3, 4)
            /\ LitAt(s, a + b + 7, <<",", " ">>)
            /\ DigitsAt(s, a + b + 9, 2)
            /\ LitAt(s, a + b + 11, <<":">>)
            /\ DigitsAt(s, a + b + 12, 2)
            /\ LitAt(s, a + b + 14, <<" ", "-", " ">>)}

\* the lengths k >= 1 of a name starting at q: k characters other than a
\* newline, followed by ": "
NameLengths(s, q) ==
    {k \in 1..Len(s) :
        /\ \A i \in q..(q + k - 1) : i <= Len(s) /\ s[i] # "\n"
        /\ LitAt(s, q + k, <<":", " ">>)}

\* the message: every character up to a newline or the end
MessageFrom(s, p) ==
    LET nl == {i \in p..Len(s) : s[i] = "\n"}
    IN  IF nl = {} THEN Slice(s, p, Len(s)) ELSE Slice(s, p, Least(nl) - 1)

\* line_pattern.match(line) is not None
Matches(s) ==
    /\ HeadMatches(s) # {}
    /\ LET ab == CHOOSE x \in HeadMatches(s) : TRUE
       IN  NameLengths(s, ab[1] + ab[2] + 17) # {}

\* match.groups(): date, time, name, message
Groups(s) ==
    LET ab == CHOOSE x \in HeadMatches(s) : TRUE
        n  == ab[1] + ab[2]
        q  == n + 17
        k  == Least(NameLengths(s, q))
    IN  [date    |-> SubSeq(s, 1, n + 6),
         time    |-> SubSeq(s, n + 9, n + 13),
         name    |-> SubSeq(s, q, q + k - 1),
         message |-> MessageFrom(s, q + k + 2)]

\* a clean-up that trims the name and keeps its parenthesis
CleanNameKeepParen(name) == Strip(name)

\* name.split('(')[0].strip()
CleanName(name) == Strip(BeforeFirst(name, "("))

\* parse_line(line): <<>> for None, else <<[Date, Time, Name, Message]>>
parse_line(s) ==
    IF Matches(s)
    THEN LET g == Groups(s)
         IN  <<[Date |-> g.date, Time |-> g.time,
                Name |-> CleanName(g.name), Message |-> g.message]>>
    ELSE <<>>

-----------------------------------------------------------------------------
(* parse_line as a function of one line *)

\* what the variables of the later stages hold before those stages run
LaterIdle ==
    /\ df = <<>>
    /\ session = [participants |-> <<>>, date |-> <<>>, keyword |-> <<>>]
    /\ selected_participant = <<>>
    /\ selected_date = <<>>
    /\ keyword = <<>>
    /\ filtered_df = <<>>
    /\ duration_summary = <<>>
    /\ hourly_counts = <<>>
    /\ minute_counts = <<>>

LaterUnchanged ==
    UNCHANGED <<session, selected_participant, selected_date, keyword,
                filtered_df, duration_summary, hourly_counts, minute_counts>>

\* the text of a line up to the name
LineHeads ==
    {<<"1", "/", "1", "/", "2", "0", "2", "4", ",", " ", "0", "9", ":", "0", "0", " ", "-", " ">>,
     <<"3", "1", "/", "1", "2", "/", "2", "0", "2", "4", ",", " ", "2", "3", ":", "5", "9", " ", "-", " ">>,
     <<" ", "1", "/", "1", "/", "2", "0", "2", "4", ",", " ", "0", "9", ":", "0", "0", " ", "-", " ">>,
     <<"1", "/", "1", "/", "2", "4", ",", " ", "0", "9", ":", "0", "0", " ", "-", " ">>,
     <<"1", "/", "1", "/", "2", "0", "2", "4", ",", " ", "9", ":", "0", "0", " ", "-", " ">>,
     <<"1", "/", "1", "/", "2", "0", "2", "4", ",", " ", "0", "9", ":", "0", "0", "-">>}

\* the characters of the tail of a line
BodyChars == {"A", ":", " ", "("}

LineInputs == {h \o b : h \in LineHeads, b \in SeqsUpTo(BodyChars, MaxBody)}

InitLine ==
    /\ pc = "line"
    /\ line \in LineInputs
    /\ parsed = <<>>
    /\ file = <<>>
    /\ idx = 1
    /\ data = <<>>
    /\ LaterIdle

\* parsed = parse_line(line)
ParseLine ==
    /\ pc = "line"
    /\ parsed' = parse_line(line)
    /\ pc' = "line_done"
    /\ UNCHANGED <<line, file, idx, data, df>>
    /\ LaterUnchanged

NextLine == ParseLine

SpecLine == InitLine /\ [][NextLine]_vars

-----------------------------------------------------------------------------
(* parse_chat: the ingestion loop *)

\* the raw lines of the uploaded files
FileLines ==
    {<<"1", "/", "1", "/", "2", "0", "2", "4", ",", " ", "0", "9", ":", "0", "0", " ", "-", " ", "A", ":", " ", "h", "i", "\n">>,
     <<"1", "/", "1", "/", "2", "0", "2", "4", ",", " ", "0", "9", ":", "0", "5", " ", "-", " ", "B", " ", "(", "5", ")", ":", " ", "y", "o", "\n">>,
     <<" ", "2", "/", "1", "/", "2", "0", "2", "4", ",", " ", "1", "0", ":", "0", "0", " ", "-", " ", "A", ":", " ", "o", "k", "\n">>,
     <<"2", "/", "1", "/", "2", "0", "2", "4", ",", " ", "1", "0", ":", "0", "0", " ", "-", " ", "A", ":", " ", "\n">>,
     <<"g", "a", "r", "b", "a", "g", "e", "\n">>,
     <<"x", "1", "/", "1", "/", "2", "0", "2", "4", ",", " ", "0", "9", ":", "0", "0", " ", "-", " ", "A", ":", " ", "h", "i", "\n">>,
     <<"\n">>,
     <<"3", "/", "1", "/", "2", "0", "2", "4", ",", " ", "1", "1", ":", "0", "0", " ", "-", " ", "B", ":", " ", "a", ":", " ", "b">>}

InitParse ==
    /\ pc = "read"
    /\ file \in SeqsUpTo(FileLines, MaxLines)
    /\ idx = 1
    /\ data = <<>>
    /\ line = <<>>
    /\ parsed = <<>>
    /\ LaterIdle

\* raw_line.decode("utf-8"): the lines are ASCII text, one character a byte
Decode(raw) == raw

\* one iteration of the for loop of parse_chat
ParseChatStep ==
    /\ pc = "read"
    /\ idx <= Len(file)
    /\ LET l == Strip(Decode(file[idx]))
           r == parse_line(l)
       IN  /\ line' = l
           /\ parsed' = r
           /\ data' = IF r # <<>> THEN Append(data, r[1]) ELSE data
    /\ idx' = idx + 1
    /\ UNCHANGED <<pc, file, df>>
    /\ LaterUnchanged

\* df = pd.DataFrame(data, ...); return df
ParseChatReturn ==
    /\ pc = "read"
    /\ idx > Len(file)
    /\ df' = data
    /\ pc' = "parsed"
    /\ UNCHANGED <<line, parsed, file, idx, data>>
    /\ LaterUnchanged

NextParse == ParseChatStep \/ ParseChatReturn

SpecParse == InitParse /\ [][NextParse]_vars

-----------------------------------------------------------------------------
(* DateTime normalisation: pd.to_datetime(Date + " " + Time, dayfirst=True, *)
(* errors='coerce') and the columns derived from it.  A timestamp is the   *)
(* number of seconds since 1/1/2024 00:00.                                 *)

\* pandas' NaT / NaN: the value of a missing timestamp, date, hour or minute
NaT == -1

\* the characters in the order of their code points
Ascii ==
    <<"\n", " ", "(", ")", "+", ".", "/",
      "0", "1", "2", "3", "4", "5", "6", "7", "8", "9", ":", "<", ">",
      "A", "B", "C", "D", "E", "F", "G", "H", "I", "J", "K", "L", "M",
      "N", "O", "P", "Q", "R", "S", "T", "U", "V", "W", "X", "Y", "Z",
      "a", "b", "c", "d", "e", "f", "g", "h", "i", "j", "k", "l", "m",
      "n", "o", "p", "q", "r", "s", "t", "u", "v", "w", "x", "y", "z", "|">>

CharCode(c) == CHOOSE i \in 1..Len(Ascii) : Ascii[i] = c

DigitValue(c) == CharCode(c) - CharCode("0")

\* int(text) of a run of digits
RECURSIVE Num(_)
Num(s) ==
    IF s = <<>> THEN 0
    ELSE 10 * Num(SubSeq(s, 1, Len(s) - 1)) + DigitValue(s[Len(s)])

IsLeap(y) == (y % 4 = 0 /\ y % 100 # 0) \/ y % 400 = 0

DaysInMonth(m, y) ==
    IF m = 2 THEN (IF IsLeap(y) THEN 29 ELSE 28)
    ELSE IF m \in {4, 6, 9, 11} THEN 30 ELSE 31

\* the leap days of the years before y
LeapsBefore(y) == ((y - 1) \div 4) - ((y - 1) \div 100) + ((y - 1) \div 400)

\* the days from 1/1/2024 to 1/1/y
DaysBeforeYear(y) == 365 * (y - 2024) + LeapsBefore(y) - LeapsBefore(2024)

RECURSIVE DaysBeforeMonth(_, _)
DaysBeforeMonth(m, y) ==
    IF m <= 1 THEN 0 ELSE DaysBeforeMonth(m - 1, y) + DaysInMonth(m - 1, y)

\* dayfirst=True: day/month/year.  The dates of the rows below have one
\* reading only: none has a month above 12 with a day of at most 12, the
\* case in which versions of pandas differ.
DayFirst(date) ==
    LET s1 == Least({i \in 1..Len(date) : date[i] = "/"})
        s2 == Greatest({i \in 1..Len(date) : date[i] = "/"})
    IN  [day   |-> Num(SubSeq(date, 1, s1 - 1)),
         month |-> Num(SubSeq(date, s1 + 1, s2 - 1)),
         year  |-> Num(SubSeq(date, s2 + 1, Len(date)))]

\* pd.to_datetime of one row, errors='coerce': NaT for a text that is no
\* calendar moment
to_datetime(date, time) ==
    LET d  == DayFirst(date)
        hh == Num(SubSeq(time, 1, 2))
        mm == Num(SubSeq(time, 4, 5))
    IN  IF /\ d.month \in 1..12
           /\ d.day \in 1..DaysInMonth(d.month, d.year)
           /\ hh \in 0..23
           /\ mm \in 0..59
        THEN (DaysBeforeYear(d.year) + DaysBeforeMonth(d.month, d.year) + d.day - 1) * 86400
                 + hh * 3600 + mm * 60
        ELSE NaT

\* .dt.date: the day of a timestamp, in days since 1/1/2024
DtDate(t) == IF t = NaT THEN NaT ELSE t \div 86400

\* .dt.time: the time of day of a timestamp, in seconds
DtTime(t) == IF t = NaT THEN NaT ELSE t % 86400

\* .dt.hour
DtHour(t) == IF t = NaT THEN NaT ELSE (t % 86400) \div 3600

\* .dt.floor('T'): the timestamp without its seconds
DtFloorMinute(t) == IF t = NaT THEN NaT ELSE t - (t % 60)

\* the row with its DateTime and the columns derived from it
NormalizedRow(r) ==
    LET t == to_datetime(r.Date, r.Time)
    IN  [Date        |-> DtDate(t),
         Time        |-> DtTime(t),
         Name        |-> r.Name,
         Message     |-> r.Message,
         DateTime    |-> t,
         HourRound   |-> DtHour(t),
         MinuteRound |-> DtFloorMinute(t)]

\* df['Name'].unique(): the names in the order of their first row
RECURSIVE Unique(_)
Unique(names) ==
    IF names = <<>> THEN <<>>
    ELSE LET rest == Unique(SubSeq(names, 1, Len(names) - 1))
             last == names[Len(names)]
         IN  IF \E i \in 1..Len(rest) : rest[i] = last THEN rest
             ELSE Append(rest, last)

Column(rows, c) == [i \in 1..Len(rows) |-> rows[i][c]]

\* the values of a column that are not missing
Valid(rows, c) == {rows[i][c] : i \in {j \in 1..Len(rows) : rows[j][c] # NaT}}

\* lines 41 to 45
Normalize ==
    /\ pc = "parsed"
    /\ df' = [i \in 1..Len(df) |-> NormalizedRow(df[i])]
    /\ pc' = "normalized"
    /\ UNCHANGED <<line, parsed, file, idx, data>>
    /\ LaterUnchanged

-----------------------------------------------------------------------------
(* The sidebar: the script reads the values the user has set                *)

\* the sequences without repetition over a set
Selections(S) ==
    {s \in SeqsUpTo(S, Cardinality(S)) : \A i, j \in 1..Len(s) : i # j => s[i] # s[j]}

\* the dates st.date_input offers: min_date to max_date
DatesOffered(rows) ==
    LET ds == Valid(rows, "Date")
    IN  IF ds = {} THEN {} ELSE Least(ds)..Greatest(ds)

\* the widget values a user may have set for a DataFrame of parsed rows
Sessions(rows, keywords) ==
    LET norm == [i \in 1..Len(rows) |-> NormalizedRow(rows[i])]
        names == Unique(Column(rows, "Name"))
    IN  [participants : Selections({names[i] : i \in 1..Len(names)}),
         date : {<<>>} \cup {<<d>> : d \in DatesOffered(norm)},
         keyword : keywords]

\* lines 48 to 55
Sidebar ==
    /\ pc = "normalized"
    /\ LET participants == Unique(Column(df, "Name"))
       IN  /\ \A i \in 1..Len(session.participants) :
                  \E j \in 1..Len(participants) : participants[j] = session.participants[i]
           /\ \A i \in 1..Len(session.date) : session.date[i] \in DatesOffered(df)
    /\ selected_participant' = session.participants
    /\ selected_date' = session.date
    /\ keyword' = session.keyword
    /\ pc' = "sidebar"
    /\ UNCHANGED <<line, parsed, file, idx, data, df, session, filtered_df,
                   duration_summary, hourly_counts, minute_counts>>

-----------------------------------------------------------------------------
(* The filters                                                              *)

Uppers ==
    <<"A", "B", "C", "D", "E", "F", "G", "H", "I", "J", "K", "L", "M",
      "N", "O", "P", "Q", "R", "S", "T", "U", "V", "W", "X", "Y", "Z">>

Lowers ==
    <<"a", "b", "c", "d", "e", "f", "g", "h", "i", "j", "k", "l", "m",
      "n", "o", "p", "q", "r", "s", "t", "u", "v", "w", "x", "y", "z">>

\* re.IGNORECASE: a letter and its other case are the same character
Lower(c) ==
    IF \E i \in 1..26 : Uppers[i] = c
    THEN Lowers[CHOOSE i \in 1..26 : Uppers[i] = c]
    ELSE c

\* the pieces of a text between the occurrences of c
RECURSIVE SplitOn(_, _)
SplitOn(s, c) ==
    LET at == {i \in 1..Len(s) : s[i] = c}
    IN  IF at = {} THEN <<s>>
        ELSE <<Slice(s, 1, Least(at) - 1)>> \o SplitOn(Slice(s, Least(at) + 1, Len(s)), c)

\* one character of a pattern against one character of a text: "." is any
\* character but a newline, any other character is itself in either case
AtomMatches(a, c) ==
    IF a = "." THEN c # "\n" ELSE Lower(a) = Lower(c)

\* a branch of a pattern matches the text at position p
BranchAt(branch, text, p) ==
    /\ p + Len(branch) - 1 <= Len(text)
    /\ \A i \in 1..Len(branch) : AtomMatches(branch[i], text[p + i - 1])

\* re.search(pat, text, re.IGNORECASE) of str.contains(pat, case=False), for
\* a pattern of plain characters, "." and "|": the pattern is a regular
\* expression, "|" separates its branches
ContainsRegex(text, pat) ==
    LET branches == SplitOn(pat, "|")
    IN  \E b \in 1..Len(branches) : \E p \in 1..(Len(text) + 1) :
            BranchAt(branches[b], text, p)

StrContains(text, pat) == ContainsRegex(text, pat)

\* df['Name'].isin(selected_participant)
IsIn(x, list) == \E i \in 1..Len(list) : list[i] = x

\* lines 58 to 62
Filtered(rows, selected, date, kw) ==
    LET ByName(r) == IsIn(r.Name, selected)
        ByDate(r) == r.Date = date[1]
        ByWord(r) == StrContains(r.Message, kw)
        f1 == SelectSeq(rows, ByName)
        f2 == IF date # <<>> THEN SelectSeq(f1, ByDate) ELSE f1
    IN  IF kw # <<>> THEN SelectSeq(f2, ByWord) ELSE f2

ApplyFilters ==
    /\ pc = "sidebar"
    /\ filtered_df' = Filtered(df, selected_participant, selected_date, keyword)
    /\ pc' = "filtered"
    /\ UNCHANGED <<line, parsed, file, idx, data, df, session,
                   selected_participant, selected_date, keyword,
                   duration_summary, hourly_counts, minute_counts>>

-----------------------------------------------------------------------------
(* The chat duration summary                                                *)

max_idle_minutes == 15

\* a < b for timestamps in sort_values: a missing one is after every other
TimeBefore(a, b) == a # NaT /\ (b = NaT \/ a < b)

\* sort_values('DateTime'): ascending, NaT last.  Rows of equal DateTime are
\* kept in their order; the summary reads their DateTime only.
RECURSIVE SortByDateTime(_)
SortByDateTime(rows) ==
    IF rows = <<>> THEN <<>>
    ELSE LET done == SortByDateTime(SubSeq(rows, 1, Len(rows) - 1))
             x    == rows[Len(rows)]
             k    == Cardinality({i \in 1..Len(done) :
                                     ~TimeBefore(x.DateTime, done[i].DateTime)})
         IN  SubSeq(done, 1, k) \o <<x>> \o SubSeq(done, k + 1, Len(done))

\* filtered_df[filtered_df['Name'] == participant].sort_values('DateTime')
PersonDf(rows, participant) ==
    LET Mine(r) == r.Name = participant
    IN  SortByDateTime(SelectSeq(rows, Mine))

\* person_df['DateTime'].max() - person_df['DateTime'].min()
TotalDuration(person) ==
    LET ts == Valid(person, "DateTime")
    IN  IF ts = {} THEN NaT ELSE Greatest(ts) - Least(ts)

\* person_df['DateTime'].diff().fillna(pd.Timedelta(seconds=0))
Deltas(person) ==
    [i \in 1..Len(person) |->
        IF i = 1 \/ person[i].DateTime = NaT \/ person[i - 1].DateTime = NaT
        THEN 0
        ELSE person[i].DateTime - person[i - 1].DateTime]

RECURSIVE SumSeq(_)
SumSeq(s) == IF s = <<>> THEN 0 ELSE Head(s) + SumSeq(Tail(s))

\* a gap counts when it is shorter than the idle time
IdleExclusive(d) == d < max_idle_minutes * 60

\* deltas <= pd.Timedelta(minutes=max_idle_minutes)
WithinIdle(d) == d <= max_idle_minutes * 60

\* a sum of all the gaps, idle or not
ActiveTimeOfAllGaps(person) == SumSeq(Deltas(person))

\* deltas[deltas <= ...].sum()
ActiveTime(person) == SumSeq(SelectSeq(Deltas(person), WithinIdle))

\* f"{int(active_hours)}h {int(active_minutes)}m": the hours and the minutes
\* of the text
DurationText(seconds) ==
    LET active_hours     == seconds \div 3600
        active_remainder == seconds % 3600
        active_minutes   == active_remainder \div 60
    IN  <<active_hours, active_minutes>>

\* a count of the rows that have a DateTime
CountValid(person) == Cardinality({i \in 1..Len(person) : person[i].DateTime # NaT})

\* person_df.shape[0]
MessagesSent(person) == Len(person)

\* an entry for a participant without messages too
SummaryEntryAlways(rows, participant) ==
    LET person == PersonDf(rows, participant)
    IN  <<[Participant        |-> participant,
           MessagesSent       |-> MessagesSent(person),
           ActiveChatDuration |-> DurationText(ActiveTime(person))]>>

\* lines 74 to 89: the body of the loop, the entries it appends
SummaryEntry(rows, participant) ==
    LET person         == PersonDf(rows, participant)
        total_duration == TotalDuration(person)
        active_time    == ActiveTime(person)
    IN  IF person # <<>>
        THEN <<[Participant        |-> participant,
                MessagesSent       |-> MessagesSent(person),
                ActiveChatDuration |-> DurationText(active_time)]>>
        ELSE <<>>

\* lines 73 to 89: the loop over selected_participant
RECURSIVE SummaryOf(_, _)
SummaryOf(rows, selected) ==
    IF selected = <<>> THEN <<>>
    ELSE SummaryEntry(rows, Head(selected)) \o SummaryOf(rows, Tail(selected))

DurationSummary ==
    /\ pc = "filtered"
    /\ duration_summary' = SummaryOf(filtered_df, selected_participant)
    /\ pc' = "summarised"
    /\ UNCHANGED <<line, parsed, file, idx, data, df, session,
                   selected_participant, selected_date, keyword, filtered_df,
                   hourly_counts, minute_counts>>

-----------------------------------------------------------------------------
(* The aggregations: groupby([bucket, 'Name'])                              *)

\* a < b for texts, character by character
TextBefore(a, b) ==
    \E i \in 1..(Len(a) + 1) :
        /\ i <= Len(b)
        /\ \A j \in 1..(i - 1) : a[j] = b[j]
        /\ i = Len(a) + 1 \/ CharCode(a[i]) < CharCode(b[i])

\* the order of the group keys (bucket, name)
KeyBefore(k1, k2) ==
    \/ k1[1] < k2[1]
    \/ k1[1] = k2[1] /\ TextBefore(k1[2], k2[2])

\* the keys of a set in their order
RECURSIVE SortKeys(_)
SortKeys(K) ==
    IF K = {} THEN <<>>
    ELSE LET m == CHOOSE k \in K : \A o \in K \ {k} : KeyBefore(k, o)
         IN  <<m>> \o SortKeys(K \ {m})

\* group keys that keep the rows without a bucket (dropna=False)
GroupKeysWithMissing(rows, bucket) ==
    SortKeys({<<rows[i][bucket], rows[i].Name>> : i \in 1..Len(rows)})

\* the keys of groupby([bucket, 'Name']): sorted, a row whose bucket is
\* missing is in no group
GroupKeys(rows, bucket) ==
    SortKeys({<<rows[i][bucket], rows[i].Name>> :
                 i \in {j \in 1..Len(rows) : rows[j][bucket] # NaT}})

\* the rows of a group, in the order of the rows
Group(rows, bucket, key) ==
    LET InGroup(r) == r[bucket] = key[1] /\ r.Name = key[2]
    IN  SelectSeq(rows, InGroup)

\* sep.join(texts)
RECURSIVE Join(_, _)
Join(texts, sep) ==
    IF texts = <<>> THEN <<>>
    ELSE IF Len(texts) = 1 THEN texts[1]
    ELSE texts[1] \o sep \o Join(Tail(texts), sep)

\* a join of the texts of a group from its last row to its first
RECURSIVE JoinReversed(_, _)
JoinReversed(texts, sep) ==
    IF texts = <<>> THEN <<>>
    ELSE IF Len(texts) = 1 THEN texts[1]
    ELSE JoinReversed(Tail(texts), sep) \o sep \o texts[1]

Br == <<"<", "b", "r", ">">>

\* the texts of a group joined from its last row to its first
JoinMessagesReversed(texts) == JoinReversed(texts, Br)

\* '<br>'.join(x.astype(str))
JoinMessages(texts) == Join(texts, Br)

\* groupby(['HourRound', 'Name']).size().reset_index(name='MessageCount')
HourlyOf(rows) ==
    LET keys == GroupKeys(rows, "HourRound")
    IN  [i \in 1..Len(keys) |->
            [HourRound    |-> keys[i][1],
             Name         |-> keys[i][2],
             MessageCount |-> Len(Group(rows, "HourRound", keys[i]))]]

\* lines 95 and 96
HourlyCounts ==
    /\ pc = "summarised"
    /\ hourly_counts' = IF filtered_df # <<>> THEN HourlyOf(filtered_df)
                        ELSE hourly_counts
    /\ pc' = "hourly"
    /\ UNCHANGED <<line, parsed, file, idx, data, df, session,
                   selected_participant, selected_date, keyword, filtered_df,
                   duration_summary, minute_counts>>

\* groupby(['MinuteRound', 'Name']).agg(MessageCount, Messages).reset_index()
MinuteOf(rows) ==
    LET keys == GroupKeys(rows, "MinuteRound")
    IN  [i \in 1..Len(keys) |->
            LET g == Group(rows, "MinuteRound", keys[i])
            IN  [MinuteRound  |-> keys[i][1],
                 Name         |-> keys[i][2],
                 MessageCount |-> Len(g),
                 Messages     |-> JoinMessages(Column(g, "Message"))]]

\* lines 118 to 122
MinuteCounts ==
    /\ pc = "hourly"
    /\ minute_counts' = IF filtered_df # <<>> THEN MinuteOf(filtered_df)
                        ELSE minute_counts
    /\ pc' = "done"
    /\ UNCHANGED <<line, parsed, file, idx, data, df, session,
                   selected_participant, selected_date, keyword, filtered_df,
                   duration_summary, hourly_counts>>

-----------------------------------------------------------------------------
(* The script from the parsed DataFrame on *)

\* the most rows of a DataFrame
MaxRows == 3

\* what parse_chat leaves in the variables of parse_line and of its loop
ParseDone ==
    /\ line = <<>>
    /\ parsed = <<>>
    /\ file = <<>>
    /\ idx = 1
    /\ data = <<>>

\* the script has parsed a file: df holds its rows, the widgets hold what
\* the user has set
InitParsed(rows, keywords) ==
    /\ pc = "parsed"
    /\ ParseDone
    /\ df \in SeqsUpTo(rows, MaxRows)
    /\ session \in Sessions(df, keywords)
    /\ selected_participant = <<>>
    /\ selected_date = <<>>
    /\ keyword = <<>>
    /\ filtered_df = <<>>
    /\ duration_summary = <<>>
    /\ hourly_counts = <<>>
    /\ minute_counts = <<>>

Next ==
    \/ Normalize
    \/ Sidebar
    \/ ApplyFilters
    \/ DurationSummary
    \/ HourlyCounts
    \/ MinuteCounts

D1 == <<"1", "/", "1", "/", "2", "0", "2", "4">>
D2 == <<"2", "/", "1", "/", "2", "0", "2", "4">>
DNone == <<"3", "1", "/", "2", "/", "2", "0", "2", "4">>
NameA == <<"A">>
NameB == <<"B">>

\* the rows of the parsed files: for A gaps of 10, 15, 20, 30, 35 and 45
\* minutes, two texts in one minute and a date that is no date; for B a
\* second day and a date that is no date
ChatRows ==
    {[Date |-> D1, Time |-> t, Name |-> NameA, Message |-> <<"x">>] :
        t \in {<<"0", "8", ":", "5", "0">>, <<"0", "9", ":", "0", "0">>,
               <<"0", "9", ":", "2", "0">>, <<"0", "9", ":", "3", "5">>}}
    \cup {[Date |-> DNone, Time |-> <<"0", "9", ":", "0", "0">>, Name |-> n, Message |-> <<"x">>] :
        n \in {NameA, NameB}}
    \cup {[Date |-> D2, Time |-> <<"0", "9", ":", "0", "0">>, Name |-> NameB, Message |-> <<"x">>],
          [Date |-> D1, Time |-> <<"0", "9", ":", "0", "0">>, Name |-> NameA, Message |-> <<"y">>]}

Init == InitParsed(ChatRows, {<<>>, <<"y">>})

Spec == Init /\ [][Next]_vars

-----------------------------------------------------------------------------
(* The script with texts and keywords to search *)

\* rows whose texts differ in case and hold a "."
SearchRows ==
    {[Date |-> d, Time |-> <<"0", "9", ":", "0", "0">>, Name |-> NameA, Message |-> m] :
        d \in {D1, D2}, m \in {<<"h", "i">>, <<"H", ".">>, <<"a", "b">>}}
    \cup {[Date |-> D1, Time |-> <<"0", "9", ":", "0", "0">>, Name |-> NameB, Message |-> <<"h", "i">>]}

\* the keywords typed: none, a word in the other case, a ".", a word and "|"
SearchKeywords == {<<>>, <<"H", "I">>, <<".">>, <<"i", "|">>}

InitSearch == InitParsed(SearchRows, SearchKeywords)

SpecSearch == InitSearch /\ [][Next]_vars

-----------------------------------------------------------------------------
(* Claims about parse_line and parse_chat *)

\* a text without its leading whitespace
RECURSIVE LeftTrimmed(_)
LeftTrimmed(s) ==
    IF s # <<>> /\ Head(s) \in Whitespace THEN LeftTrimmed(Tail(s)) ELSE s

\* a text without its trailing whitespace
RECURSIVE RightTrimmed(_)
RightTrimmed(s) ==
    IF s # <<>> /\ s[Len(s)] \in Whitespace
    THEN RightTrimmed(SubSeq(s, 1, Len(s) - 1))
    ELSE s

\* a text without its leading and trailing whitespace
Trimmed(s) == RightTrimmed(LeftTrimmed(s))

\* the position after the first " - " of a line
AfterDash(s) ==
    Least({i \in 1..Len(s) : LitAt(s, i, <<" ", "-", " ">>)}) + 3

\* the positions of a ": " at or after position q
ColonsFrom(s, q) == {i \in q..Len(s) : LitAt(s, i, <<":", " ">>)}

\* the sender of a captured name: the part before its first "(", trimmed
IsSenderOf(sender, name) ==
    LET paren == {i \in 1..Len(name) : name[i] = "("}
        cut   == IF paren = {} THEN name ELSE Slice(name, 1, Least(paren) - 1)
    IN  sender = Trimmed(cut)

\* the record of a line whose name ends at the ": " at position p
IsRecordOf(rec, s, p) ==
    /\ IsSenderOf(rec.Name, Slice(s, AfterDash(s), p - 1))
    /\ rec.Message = Slice(s, p + 2, Len(s))

\* C8, as claimed: for every line that matches the grammar, the captured name
\* is the text between " - " and the first following ": ", the sender is that
\* name cut before its first "(" and trimmed, and the text is everything
\* after that first ": ".
C8_NameEndsAtFirstColon ==
    (pc = "line_done" /\ parsed # <<>>) =>
        IsRecordOf(parsed[1], line, Least(ColonsFrom(line, AfterDash(line))))

\* C8, amended: the captured name is the shortest run of at least one
\* character after " - " that is followed by ": " (a ": " right after " - "
\* does not end the name); sender and text are as claimed.
C8_NameIsShortestNonEmptyRun ==
    (pc = "line_done" /\ parsed # <<>>) =>
        IsRecordOf(parsed[1], line, Least(ColonsFrom(line, AfterDash(line) + 1)))

\* a line with a parenthesis in its name was parsed to the sender "A"
C8_Witness ==
    /\ pc = "line_done"
    /\ parsed # <<>>
    /\ parsed[1].Name = <<"A">>
    /\ \E i \in 1..Len(line) : line[i] = "("

\* the rows of the texts that match the grammar, in the order of the texts
RECURSIVE RowsOf(_)
RowsOf(texts) ==
    IF texts = <<>> THEN <<>>
    ELSE (IF Matches(Head(texts)) THEN parse_line(Head(texts)) ELSE <<>>)
             \o RowsOf(Tail(texts))

\* C3, as claimed: parse_chat yields one record per line that matches the
\* grammar from its first character (the line ending removed), none for any
\* other line, in the order of the lines.
C3_OneRecordPerAnchoredLine ==
    pc = "parsed" =>
        df = RowsOf([i \in 1..Len(file) |-> RightTrimmed(file[i])])

\* C3, amended: parse_chat yields one record per line whose text, with its
\* leading and trailing whitespace removed, matches the grammar from its
\* first character, none for any other line, in the order of the lines; a
\* file without such a line yields an empty DataFrame.
C3_OneRecordPerStrippedLine ==
    pc = "parsed" =>
        df = RowsOf([i \in 1..Len(file) |-> Trimmed(file[i])])

\* a file of three lines was read: a line with a leading blank that gave a
\* record, a line that gave none, a line that gave a record
C3_Witness ==
    /\ pc = "parsed"
    /\ Len(file) = 3
    /\ Len(df) = 2
    /\ file[1][1] = " "
    /\ file[2][1] = "g"
    /\ df[1].Message = <<"o", "k">>
    /\ df[2].Name = <<"B">>

-----------------------------------------------------------------------------
(* Claims about the duration summary *)

\* the summary has been computed
Summarised == pc \in {"summarised", "hourly", "done"}

\* the filtered messages of a participant, in the order of the rows
MessagesOf(participant) ==
    LET Mine(r) == r.Name = participant
    IN  SelectSeq(filtered_df, Mine)

\* the filtered messages of a participant that have a timestamp
TimedMessagesOf(participant) ==
    LET Timed(r) == r.DateTime # NaT
    IN  SelectSeq(MessagesOf(participant), Timed)

\* a sequence of numbers in ascending order
RECURSIVE Ascending(_)
Ascending(ts) ==
    IF ts = <<>> THEN <<>>
    ELSE LET i == CHOOSE j \in 1..Len(ts) : \A k \in 1..Len(ts) : ts[j] <= ts[k]
         IN  <<ts[i]>> \o Ascending(SubSeq(ts, 1, i - 1) \o SubSeq(ts, i + 1, Len(ts)))

\* the gaps between the successive timestamps of a participant, in seconds
GapsOf(participant) ==
    LET ts == Ascending(Column(TimedMessagesOf(participant), "DateTime"))
    IN  [i \in 1..(Len(ts) - 1) |-> ts[i + 1] - ts[i]]

\* the sum of the gaps of at most 15 minutes, in seconds
RECURSIVE ActiveGaps(_)
ActiveGaps(gaps) ==
    IF gaps = <<>> THEN 0
    ELSE (IF Head(gaps) <= 15 * 60 THEN Head(gaps) ELSE 0) + ActiveGaps(Tail(gaps))

\* the active duration a row of the summary shows, in seconds
ShownSeconds(row) == row.ActiveChatDuration[1] * 3600 + row.ActiveChatDuration[2] * 60

SummaryRows == {duration_summary[i] : i \in 1..Len(duration_summary)}

\* C1, as claimed: the summary has one entry per selected participant, in
\* the order of the selection, and a participant without filtered messages
\* has an entry with 0 messages and a duration of 0.
C1_EntryPerRequested ==
    Summarised =>
        /\ Len(duration_summary) = Len(selected_participant)
        /\ \A i \in 1..Len(duration_summary) :
              /\ duration_summary[i].Participant = selected_participant[i]
              /\ MessagesOf(selected_participant[i]) = <<>> =>
                    /\ duration_summary[i].MessagesSent = 0
                    /\ duration_summary[i].ActiveChatDuration = <<0, 0>>

\* C1, amended: the summary has one entry per selected participant that has
\* at least one filtered message, in the order of the selection, and no
\* entry for a selected participant without filtered messages.
C1_EntryPerRequestedWithMessages ==
    Summarised =>
        LET HasMessages(p) == MessagesOf(p) # <<>>
        IN  Column(duration_summary, "Participant") =
                SelectSeq(selected_participant, HasMessages)

\* two participants were selected and the filters left messages of one only
C1_Witness ==
    /\ Summarised
    /\ Len(selected_participant) = 2
    /\ Len(duration_summary) = 1
    /\ MessagesOf(selected_participant[1]) = <<>>
    /\ duration_summary[1].Participant = selected_participant[2]

\* C2: for every participant with a filtered message, the active duration is
\* the sum of the gaps of at most 15 minutes between the participant's
\* successive messages in ascending order of time; a longer gap adds nothing,
\* a gap of exactly 15 minutes is added in full.
C2_ActiveDurationIsSumOfShortGaps ==
    Summarised =>
        /\ \A row \in SummaryRows :
              ShownSeconds(row) = ActiveGaps(GapsOf(row.Participant))
        /\ \A i \in 1..Len(selected_participant) :
              MessagesOf(selected_participant[i]) # <<>> =>
                  \E row \in SummaryRows : row.Participant = selected_participant[i]

\* messages at 08:50, 09:00 and 09:20 of one participant: 3 messages, 10
\* minutes active
C2_Witness ==
    /\ Summarised
    /\ \E row \in SummaryRows :
          /\ row.MessagesSent = 3
          /\ row.ActiveChatDuration = <<0, 10>>
          /\ GapsOf(row.Participant) = <<600, 1200>>

\* C4, as claimed: the messages sent of a participant are the filtered
\* messages that have a valid timestamp; a participant whose filtered
\* messages all have an invalid timestamp is reported with 0 messages.
C4_CountExcludesInvalid ==
    Summarised =>
        \A row \in SummaryRows :
            row.MessagesSent = Len(TimedMessagesOf(row.Participant))

\* C4, amended: the messages sent of a participant are all of the
\* participant's filtered messages, with a valid timestamp or not; a message
\* with an invalid timestamp adds nothing to the active duration; a
\* participant whose filtered messages all have an invalid timestamp is
\* reported with the number of those messages and a duration of 0.
C4_CountIncludesInvalid ==
    Summarised =>
        \A row \in SummaryRows :
            /\ row.MessagesSent = Len(MessagesOf(row.Participant))
            /\ row.ActiveChatDuration =
                   DurationText(ActiveTime(SortByDateTime(TimedMessagesOf(row.Participant))))
            /\ TimedMessagesOf(row.Participant) = <<>> =>
                   row.ActiveChatDuration = <<0, 0>>

\* a participant with two timed messages 10 minutes apart and one message
\* with an invalid timestamp
C4_Witness ==
    /\ Summarised
    /\ \E row \in SummaryRows :
          /\ row.MessagesSent = 3
          /\ Len(TimedMessagesOf(row.Participant)) = 2
          /\ row.ActiveChatDuration = <<0, 10>>

\* a <= b as pandas compares durations: false when one is missing
DurationLe(a, b) == a # NaT /\ b # NaT /\ a <= b

\* C10, as claimed: for every participant of the summary the active duration
\* is at least 0 and at most the span from the participant's earliest to
\* latest filtered message, and equals it exactly when no gap exceeds 15
\* minutes.
C10_ActiveWithinSpan ==
    Summarised =>
        \A row \in SummaryRows :
            LET span == TotalDuration(PersonDf(filtered_df, row.Participant))
                gaps == GapsOf(row.Participant)
            IN  /\ DurationLe(0, ShownSeconds(row))
                /\ DurationLe(ShownSeconds(row), span)
                /\ ShownSeconds(row) = span <=>
                       \A i \in 1..Len(gaps) : gaps[i] <= 15 * 60

\* C10, amended: the same, for every participant of the summary that has at
\* least one filtered message with a valid timestamp (without one the span
\* is missing and the active duration is 0).
C10_ActiveWithinSpanOfTimed ==
    Summarised =>
        \A row \in SummaryRows :
            LET span == TotalDuration(PersonDf(filtered_df, row.Participant))
                gaps == GapsOf(row.Participant)
            IN  IF TimedMessagesOf(row.Participant) # <<>>
                THEN /\ DurationLe(0, ShownSeconds(row))
                     /\ DurationLe(ShownSeconds(row), span)
                     /\ ShownSeconds(row) = span <=>
                            \A i \in 1..Len(gaps) : gaps[i] <= 15 * 60
                ELSE span = NaT /\ ShownSeconds(row) = 0

\* a participant with a gap of 15 and a gap of 20 minutes: 15 minutes
\* active in a span of 35 minutes
C10_Witness ==
    /\ Summarised
    /\ \E row \in SummaryRows :
          /\ GapsOf(row.Participant) = <<1200, 900>>
          /\ row.ActiveChatDuration = <<0, 15>>
          /\ TotalDuration(PersonDf(filtered_df, row.Participant)) = 2100

-----------------------------------------------------------------------------
(* Claims about the aggregations *)

HourlyDone == pc \in {"hourly", "done"}

\* the number of filtered messages that satisfy P
CountOf(P(_)) == Len(SelectSeq(filtered_df, P))

\* C5: the hour aggregation has each (hour, participant) key at most once,
\* the count of a key is the number of filtered messages of that hour and
\* sender, and the counts add up to the number of filtered messages with a
\* valid timestamp.
C5_HourCounts ==
    HourlyDone =>
        /\ \A i, j \in 1..Len(hourly_counts) :
              (/\ hourly_counts[i].HourRound = hourly_counts[j].HourRound
               /\ hourly_counts[i].Name = hourly_counts[j].Name) => i = j
        /\ \A i \in 1..Len(hourly_counts) :
              LET SameKey(r) == /\ r.DateTime # NaT
                                /\ (r.DateTime % 86400) \div 3600 = hourly_counts[i].HourRound
                                /\ r.Name = hourly_counts[i].Name
              IN  hourly_counts[i].MessageCount = CountOf(SameKey)
        /\ LET Timed(r) == r.DateTime # NaT
           IN  SumSeq(Column(hourly_counts, "MessageCount")) = CountOf(Timed)

\* two messages in one bucket and a message with an invalid timestamp in no
\* bucket
C5_Witness ==
    /\ HourlyDone
    /\ Len(filtered_df) = 3
    /\ Len(hourly_counts) = 1
    /\ hourly_counts[1].HourRound = 9
    /\ hourly_counts[1].MessageCount = 2
    /\ \E i \in 1..Len(filtered_df) : filtered_df[i].DateTime = NaT

\* the texts of a list, each after a "<br>" but the first
RECURSIVE Listed(_)
Listed(texts) ==
    IF texts = <<>> THEN <<>>
    ELSE IF Len(texts) = 1 THEN texts[1]
    ELSE Listed(SubSeq(texts, 1, Len(texts) - 1)) \o <<"<", "b", "r", ">">> \o texts[Len(texts)]

\* C9: the minute aggregation has each (minute, participant) key at most
\* once, the count of a key is the number of filtered messages of that minute
\* and sender, and its text lists the texts of those messages, one per
\* message, in the order of the filtered rows.
C9_MinuteCounts ==
    pc = "done" =>
        /\ \A i, j \in 1..Len(minute_counts) :
              (/\ minute_counts[i].MinuteRound = minute_counts[j].MinuteRound
               /\ minute_counts[i].Name = minute_counts[j].Name) => i = j
        /\ \A i \in 1..Len(minute_counts) :
              LET SameKey(r) == /\ r.DateTime # NaT
                                /\ r.DateTime \div 60 = minute_counts[i].MinuteRound \div 60
                                /\ r.Name = minute_counts[i].Name
                  rows == SelectSeq(filtered_df, SameKey)
              IN  /\ minute_counts[i].MessageCount = Len(rows)
                  /\ minute_counts[i].MessageCount >= 1
                  /\ minute_counts[i].Messages = Listed(Column(rows, "Message"))

\* a bucket of two messages whose texts are listed in the order of the rows
C9_Witness ==
    /\ pc = "done"
    /\ \E i \in 1..Len(minute_counts) :
          /\ minute_counts[i].MessageCount = 2
          /\ minute_counts[i].Messages = <<"y", "<", "b", "r", ">", "x">>
    /\ Len(minute_counts) >= 2

-----------------------------------------------------------------------------
(* Claims about the filters *)

FilterDone == pc \in {"filtered", "summarised", "hourly", "done"}

\* the keyword occurs in the text, letter case aside
Occurs(word, text) ==
    \E p \in 0..(Len(text) - Len(word)) :
        \A i \in 1..Len(word) : Lower(text[p + i]) = Lower(word[i])

\* C6: the filter result is the rows, in their order, that satisfy every
\* predicate present: the sender is selected; the date is the selected date,
\* when one is selected; the text contains the keyword, when one is typed.
C6_FilterIsConjunction ==
    FilterDone =>
        LET Kept(r) ==
               /\ \E i \in 1..Len(selected_participant) : selected_participant[i] = r.Name
               /\ selected_date # <<>> => r.Date = selected_date[1]
               /\ keyword # <<>> => Occurs(keyword, r.Message)
        IN  filtered_df = SelectSeq(df, Kept)

\* C7: with a keyword typed, a message that passes the other filters is kept
\* exactly when the keyword occurs in its text as it is written, letter case
\* aside.
C7_KeywordIsLiteral ==
    (FilterDone /\ keyword # <<>>) =>
        \A r \in {df[i] : i \in 1..Len(df)} :
            (/\ \E i \in 1..Len(selected_participant) : selected_participant[i] = r.Name
             /\ selected_date # <<>> => r.Date = selected_date[1])
            => ((\E i \in 1..Len(filtered_df) : filtered_df[i] = r)
                    <=> Occurs(keyword, r.Message))

====
